---- MODULE Spec2Model ----
(***************************************************************************)
(* Model of the markdown mind-map generator: parse_markdown walks the      *)
(* token stream of markdown-it, resolves the heading hierarchy with the    *)
(* path stack and fills a MindMap (nodes, edges, node_counter); render     *)
(* serialises the MindMap with to_vis_data.                                *)
(***************************************************************************)
EXTENDS Integers, Sequences, FiniteSets, TLC

VARIABLES file, tokens, pc, i, path, mind_map, failure, nodes_json, edges_json,
          frontmatter, config, content_start, other, main, plugin_manager

vars == <<file, tokens, pc, i, path, mind_map, failure, nodes_json, edges_json,
          frontmatter, config, content_start, other, main, plugin_manager>>

(* ------------------------------ bounds --------------------------------- *)

\* deepest heading level drawn for the inputs (the tokenizer emits h1..h6)
MaxLevel == 3
\* longest token stream drawn over the whole token alphabet
MaxTokens == 3
\* longest document drawn as a sequence of heading / empty heading / paragraph
MaxHeadings == 4
\* largest start line carried by a token map in the short token streams
MaxLine == 1
\* number of lines of the frontmatter block of a document that has one
FrontmatterLines == 3
\* longest document drawn for each of two invocations running together
MaxPairLines == 2
\* largest number of enable, disable and configure calls on a PluginManager
MaxCalls == 3

(* --------------------------- Python values ----------------------------- *)

\* Python's None for the optional integers parent_id and line_number
None == -1

\* tag of a heading_open token, by level
HTag == <<"h1", "h2", "h3", "h4", "h5", "h6">>

\* int(token.tag[1]): the digit after the 'h'
TagLevel(tag) == CHOOSE l \in 1..6 : HTag[l] = tag

(* ------------------------------ tokens --------------------------------- *)

\* token.map is None (here <<>>) or the list [start_line, end_line]
HeadingOpen(l, m) == [type |-> "heading_open", tag |-> HTag[l], map |-> m, content |-> ""]

Inline(c) == [type |-> "inline", tag |-> "", map |-> <<>>, content |-> c]

\* any token that is neither heading_open nor inline
Other == [type |-> "paragraph_open", tag |-> "p", map |-> <<>>, content |-> ""]

Labels == {"A", ":star:"}

Maps == {<<>>} \cup {<<s, s + 1>> : s \in 0..MaxLine}

TokenAlphabet ==
    {HeadingOpen(l, m) : l \in 1..MaxLevel, m \in Maps}
        \cup {Inline(c) : c \in Labels} \cup {Other}

\* every token stream of at most MaxTokens tokens
ShortStreams == UNION {[1..n -> TokenAlphabet] : n \in 0..MaxTokens}

\* a document line: a heading with text, a heading without text, a paragraph
ItemKinds == ({"heading", "empty"} \X (1..MaxLevel)) \cup {<<"paragraph", 0>>}

\* the tokens of the k-th line of a document (the line starts at k - 1)
ItemTokens(item, k) ==
    IF item[1] = "heading"
    THEN <<HeadingOpen(item[2], <<k - 1, k>>), Inline("A")>>
    ELSE IF item[1] = "empty"
         THEN <<HeadingOpen(item[2], <<k - 1, k>>)>>
         ELSE <<Other>>

RECURSIVE DocTokens(_, _)
DocTokens(items, k) ==
    IF k > Len(items) THEN <<>>
    ELSE ItemTokens(items[k], k) \o DocTokens(items, k + 1)

\* every document of at most MaxHeadings lines
DocStreams == {DocTokens(d, 1) : d \in UNION {[1..n -> ItemKinds] : n \in 0..MaxHeadings}}

\* a heading_close token
HeadingClose(l) == [type |-> "heading_close", tag |-> HTag[l], map |-> <<>>, content |-> ""]

\* the tokens of a heading line: heading_open, inline, heading_close
HeadingLine(l, text, line) ==
    <<HeadingOpen(l, <<line, line + 1>>), Inline(text), HeadingClose(l)>>

\* the tokens of "# A\n## B\n## C\n### D\n# E\n"
ExampleRoundTrip ==
    HeadingLine(1, "A", 0) \o HeadingLine(2, "B", 1) \o HeadingLine(2, "C", 2)
        \o HeadingLine(3, "D", 3) \o HeadingLine(1, "E", 4)

TokenStreams == ShortStreams \cup DocStreams \cup {ExampleRoundTrip}

\* what parse_markdown finds at file_path
FileKinds == {"missing", "directory", "unreadable", "undecodable", "ioerror",
              "empty", "blank", "unparseable", "text"}

(* ------------------------------ plugins -------------------------------- *)

\* registration order of load_default_plugins
PluginOrder == <<"math", "code-highlight", "emoji", "links">>

emoji_map == [c \in {":star:"} |-> "U+2B50"]

\* a link whose target holds inline math, and what the substitutions of
\* MathPlugin and LinkPlugin make of it (attributes abridged): the link
\* pattern ends the target at the first ')', which after MathPlugin is the
\* one of '\(x\)'
LinkToMath == "[a]($x$)"

MathOfLink == "[a](<span k='\\(x\\)'>$x$</span>)"

LinkOfMath == "<a href='<span k='\\(x\\'>a</a>'>$x$</span>)"

LinkOfLink == "<a href='$x$'>a</a>"

MathOfLinked == "<a href='<span k='\\(x\\)'>$x$</span>'>a</a>"

\* Plugin.process_content of one plugin on a heading text
PluginProcess(name, content) ==
    IF name = "emoji" /\ content \in DOMAIN emoji_map
    THEN emoji_map[content]
    ELSE IF name = "math" /\ content = LinkToMath THEN MathOfLink
    ELSE IF name = "math" /\ content = LinkOfLink THEN MathOfLinked
    ELSE IF name = "links" /\ content = LinkToMath THEN LinkOfLink
    ELSE IF name = "links" /\ content = MathOfLink THEN LinkOfMath
    ELSE content

RECURSIVE ProcessFrom(_, _, _)
ProcessFrom(enabled, content, k) ==
    IF k > Len(PluginOrder) THEN content
    ELSE ProcessFrom(enabled,
                     IF enabled[PluginOrder[k]]
                     THEN PluginProcess(PluginOrder[k], content)
                     ELSE content,
                     k + 1)

\* PluginManager.process_content
ProcessContent(enabled, content) == ProcessFrom(enabled, content, 1)

\* Plugin.get_assets of each plugin (the URLs abridged to file names)
GetAssets(name) ==
    CASE name = "math" ->
             [css |-> <<"katex.min.css">>,
              js |-> <<"katex.min.js", "auto-render.min.js">>,
              inline_css |-> << >>]
      [] name = "code-highlight" ->
             [css |-> <<"prism.min.css">>,
              js |-> <<"prism-core.min.js", "prism-autoloader.min.js">>,
              inline_css |-> << >>]
      [] name = "emoji" -> [css |-> << >>, js |-> << >>, inline_css |-> << >>]
      [] name = "links" -> [css |-> << >>, js |-> << >>, inline_css |-> <<".enhanced-link">>]

RECURSIVE AssetsFrom(_, _, _)
AssetsFrom(enabled, all_assets, k) ==
    IF k > Len(PluginOrder) THEN all_assets
    ELSE AssetsFrom(enabled,
                    IF enabled[PluginOrder[k]]
                    THEN LET assets == GetAssets(PluginOrder[k])
                         IN [css |-> all_assets.css \o assets.css,
                             js |-> all_assets.js \o assets.js,
                             inline_css |-> all_assets.inline_css \o assets.inline_css]
                    ELSE all_assets,
                    k + 1)

\* PluginManager.get_all_assets
GetAllAssets(enabled) ==
    AssetsFrom(enabled, [css |-> << >>, js |-> << >>, inline_css |-> << >>], 1)

\* PluginManager.get_enabled_plugins
GetEnabledPlugins(enabled) == SelectSeq(PluginOrder, LAMBDA name : enabled[name])

\* PluginManager.enable_plugin
EnablePlugin(enabled, name) ==
    IF name \in DOMAIN enabled THEN [enabled EXCEPT ![name] = TRUE] ELSE enabled

\* PluginManager.disable_plugin
DisablePlugin(enabled, name) ==
    IF name \in DOMAIN enabled THEN [enabled EXCEPT ![name] = FALSE] ELSE enabled

(* --------------------------- configuration ----------------------------- *)

PluginNames == {PluginOrder[k] : k \in 1..Len(PluginOrder)}

\* MindMapConfig.__post_init__: every plugin is set to True
DefaultPlugins == [p \in PluginNames |-> "true"]

\* MindMapConfig(): the fields of the configuration the model follows
DefaultConfig ==
    [plugins |-> DefaultPlugins, theme |-> "default", layout |-> "hierarchical",
     toolbar |-> TRUE, max_width |-> 200]

\* a 'plugins' mapping of a frontmatter block; a plugin it does not name is "absent"
EmojiOff == [p \in PluginNames |-> IF p = "emoji" THEN "false" ELSE "absent"]

AllOff == [p \in PluginNames |-> "false"]

\* the frontmatter of the document: kind "none" when the pattern does not
\* match; keys are the keys of its 'mindmap' mapping
\* kind "invalid": the block is not YAML; kind "scalar": the block is YAML
\* for a value that is not a mapping (a line of text between two '---' lines)
Frontmatters ==
    {[kind |-> "none", keys |-> {}, plugins |-> DefaultPlugins, theme |-> "default"],
     [kind |-> "valid", keys |-> {}, plugins |-> DefaultPlugins, theme |-> "default"],
     [kind |-> "valid", keys |-> {"plugins"}, plugins |-> EmojiOff, theme |-> "default"],
     [kind |-> "valid", keys |-> {"plugins"}, plugins |-> AllOff, theme |-> "default"],
     [kind |-> "valid", keys |-> {"theme"}, plugins |-> DefaultPlugins, theme |-> "colorful"],
     [kind |-> "invalid", keys |-> {}, plugins |-> DefaultPlugins, theme |-> "default"],
     [kind |-> "scalar", keys |-> {}, plugins |-> DefaultPlugins, theme |-> "default"]}

NoFrontmatter ==
    [kind |-> "none", keys |-> {}, plugins |-> DefaultPlugins, theme |-> "default"]

\* MindMapConfig.from_frontmatter: the configuration and the line of the
\* document at which the returned content starts; yaml.YAMLError is caught,
\* the AttributeError of frontmatter.get on a value that is no mapping is not
FromFrontmatter(fm) ==
    IF fm.kind \in {"none", "invalid"}
    THEN [config |-> DefaultConfig, content_start |-> 0, raises |-> FALSE]
    ELSE IF fm.kind = "scalar"
         THEN [config |-> DefaultConfig, content_start |-> 0, raises |-> TRUE]
         ELSE [config |-> [DefaultConfig EXCEPT
                              !.plugins = IF "plugins" \in fm.keys THEN fm.plugins
                                          ELSE DefaultConfig.plugins,
                              !.theme = IF "theme" \in fm.keys THEN fm.theme
                                        ELSE DefaultConfig.theme],
               content_start |-> FrontmatterLines,
               raises |-> FALSE]

\* configure_plugins that enables the plugins set to True and ignores False
ConfigurePlugins_EnableOnly(enabled, plugins_config) ==
    [p \in DOMAIN enabled |->
        IF plugins_config[p] = "true" THEN TRUE ELSE enabled[p]]

\* configure_plugins that enables again every plugin its argument does not name
ConfigurePlugins_ResetUnnamed(enabled, plugins_config) ==
    [p \in DOMAIN enabled |->
        IF plugins_config[p] \in {"true", "dict", "dict_on"} THEN TRUE
        ELSE IF plugins_config[p] \in {"false", "dict_off"} THEN FALSE
        ELSE TRUE]

\* PluginManager.configure_plugins; the value given for a plugin is "true" or
\* "false" (a bool), "dict" (a dict without 'enabled'), "dict_on" or "dict_off"
\* (a dict with 'enabled'), "other" (neither a bool nor a dict), or "absent"
ConfigurePlugins(enabled, plugins_config) ==
    [p \in DOMAIN enabled |->
        IF plugins_config[p] \in {"true", "dict", "dict_on"} THEN TRUE
        ELSE IF plugins_config[p] \in {"false", "dict_off"} THEN FALSE
        ELSE enabled[p]]

(* ------------------------------ MindMap -------------------------------- *)

\* MindMap.__init__ with the default configuration
NewMindMap ==
    [nodes |-> <<>>, edges |-> <<>>, node_counter |-> 0,
     enabled |-> [p \in {PluginOrder[k] : k \in 1..Len(PluginOrder)} |-> TRUE]]

\* MindMap.__init__ with a configuration: a non-empty config.plugins
\* configures the plugin manager
MindMapWith(cfg) ==
    IF \E p \in PluginNames : cfg.plugins[p] # "absent"
    THEN [NewMindMap EXCEPT !.enabled = ConfigurePlugins(NewMindMap.enabled, cfg.plugins)]
    ELSE NewMindMap

\* add_node taking the id after the increment of node_counter
AddNode_IdAfterIncrement(m, label, level, parent_id, line_number) ==
    LET node_id == m.node_counter + 1
        node == [id |-> node_id,
                 label |-> ProcessContent(m.enabled, label),
                 level |-> level,
                 hidden |-> (level > 1),
                 line_number |-> line_number]
    IN [mind_map |->
            [m EXCEPT !.node_counter = m.node_counter + 1,
                      !.nodes = Append(m.nodes, node),
                      !.edges = IF parent_id # None
                                THEN Append(m.edges, [from |-> parent_id, to |-> node_id])
                                ELSE m.edges],
        node_id |-> node_id]

\* add_node storing the edge from the child to the parent
AddNode_EdgeReversed(m, label, level, parent_id, line_number) ==
    LET node_id == m.node_counter
        node == [id |-> node_id,
                 label |-> ProcessContent(m.enabled, label),
                 level |-> level,
                 hidden |-> (level > 1),
                 line_number |-> line_number]
    IN [mind_map |->
            [m EXCEPT !.node_counter = node_id + 1,
                      !.nodes = Append(m.nodes, node),
                      !.edges = IF parent_id # None
                                THEN Append(m.edges, [from |-> node_id, to |-> parent_id])
                                ELSE m.edges],
        node_id |-> node_id]

\* add_node hiding every node, level 1 included
AddNode_HiddenFromLevelOne(m, label, level, parent_id, line_number) ==
    LET node_id == m.node_counter
        node == [id |-> node_id,
                 label |-> ProcessContent(m.enabled, label),
                 level |-> level,
                 hidden |-> (level >= 1),
                 line_number |-> line_number]
    IN [mind_map |->
            [m EXCEPT !.node_counter = node_id + 1,
                      !.nodes = Append(m.nodes, node),
                      !.edges = IF parent_id # None
                                THEN Append(m.edges, [from |-> parent_id, to |-> node_id])
                                ELSE m.edges],
        node_id |-> node_id]

\* add_node testing the truth value of parent_id, so that the id 0 counts as absent
AddNode_TruthyParent(m, label, level, parent_id, line_number) ==
    LET node_id == m.node_counter
        node == [id |-> node_id,
                 label |-> ProcessContent(m.enabled, label),
                 level |-> level,
                 hidden |-> (level > 1),
                 line_number |-> line_number]
    IN [mind_map |->
            [m EXCEPT !.node_counter = node_id + 1,
                      !.nodes = Append(m.nodes, node),
                      !.edges = IF parent_id # None /\ parent_id # 0
                                THEN Append(m.edges, [from |-> parent_id, to |-> node_id])
                                ELSE m.edges],
        node_id |-> node_id]

\* add_node inserting the new node before the stored ones
AddNode_Prepend(m, label, level, parent_id, line_number) ==
    LET node_id == m.node_counter
        node == [id |-> node_id,
                 label |-> ProcessContent(m.enabled, label),
                 level |-> level,
                 hidden |-> (level > 1),
                 line_number |-> line_number]
    IN [mind_map |->
            [m EXCEPT !.node_counter = node_id + 1,
                      !.nodes = <<node>> \o m.nodes,
                      !.edges = IF parent_id # None
                                THEN Append(m.edges, [from |-> parent_id, to |-> node_id])
                                ELSE m.edges],
        node_id |-> node_id]

\* add_node storing an edge without the test of parent_id
AddNode_AlwaysEdge(m, label, level, parent_id, line_number) ==
    LET node_id == m.node_counter
        node == [id |-> node_id,
                 label |-> ProcessContent(m.enabled, label),
                 level |-> level,
                 hidden |-> (level > 1),
                 line_number |-> line_number]
    IN [mind_map |->
            [m EXCEPT !.node_counter = node_id + 1,
                      !.nodes = Append(m.nodes, node),
                      !.edges = IF TRUE
                                THEN Append(m.edges, [from |-> parent_id, to |-> node_id])
                                ELSE m.edges],
        node_id |-> node_id]

\* MindMap.add_node: the mind map after the call and the returned node id
AddNode(m, label, level, parent_id, line_number) ==
    LET node_id == m.node_counter
        node == [id |-> node_id,
                 label |-> ProcessContent(m.enabled, label),
                 level |-> level,
                 hidden |-> (level > 1),
                 line_number |-> line_number]
    IN [mind_map |->
            [m EXCEPT !.node_counter = node_id + 1,
                      !.nodes = Append(m.nodes, node),
                      !.edges = IF parent_id # None
                                THEN Append(m.edges, [from |-> parent_id, to |-> node_id])
                                ELSE m.edges],
        node_id |-> node_id]

(* --------------------------- parse_markdown ---------------------------- *)

\* the pop loop run as a single test: at most one entry is popped
PopPath_Once(p, level) ==
    IF Len(p) >= level THEN SubSeq(p, 1, Len(p) - 1) ELSE p

\* the pop loop with > in place of >=
RECURSIVE PopPath_Strict(_, _)
PopPath_Strict(p, level) ==
    IF Len(p) > level THEN PopPath_Strict(SubSeq(p, 1, Len(p) - 1), level) ELSE p

\* while len(path) >= level: path.pop()
RECURSIVE PopPath(_, _)
PopPath(p, level) ==
    IF Len(p) >= level THEN PopPath(SubSeq(p, 1, Len(p) - 1), level) ELSE p

\* the parent taken from the bottom of the path
ParentOf_Root(p) == IF p # <<>> THEN p[1] ELSE None

\* path[-1] if path else None
ParentOf(p) == IF p # <<>> THEN p[Len(p)] ELSE None

\* the test of lines 205-207 without the check of the token type
HasInline_AnyToken(toks, idx) == idx + 1 < Len(toks)

\* line 205-207: tokens[i + 1] exists and is the heading's inline token
HasInline(toks, idx) == idx + 1 < Len(toks) /\ toks[idx + 2].type = "inline"

\* the line number taken only when token.map[0] is itself truthy
LineNumber_StartTruthy(token) ==
    IF token.map # <<>> /\ token.map[1] # 0 THEN token.map[1] + 1 ELSE None

\* line 211-213: token.map[0] + 1 when the token carries a map
LineNumber(token) == IF token.map # <<>> THEN token.map[1] + 1 ELSE None

\* placeholder nodes for the levels between the path and the heading
RECURSIVE FillLevels(_, _, _)
FillLevels(m, p, level) ==
    IF Len(p) < level - 1
    THEN LET a == AddNode(m, "", Len(p) + 1, ParentOf(p), None)
         IN FillLevels(a.mind_map, Append(p, a.node_id), level)
    ELSE [mind_map |-> m, path |-> p]

\* the loop body filling skipped levels with placeholder nodes
LoopBody_FillLevels(toks, idx, m, p) ==
    LET token == toks[idx + 1] IN
    IF token.type = "heading_open" /\ HasInline(toks, idx)
    THEN LET level == TagLevel(token.tag)
             node_text == toks[idx + 2].content
             line_number == LineNumber(token)
             filled == FillLevels(m, PopPath(p, level), level)
             parent_id == ParentOf(filled.path)
             added == AddNode(filled.mind_map, node_text, level, parent_id, line_number)
         IN [mind_map |-> added.mind_map,
             path |-> Append(filled.path, added.node_id)]
    ELSE [mind_map |-> m, path |-> p]

\* the loop body taking the parent from the path before the pop loop
LoopBody_ParentBeforePop(toks, idx, m, p) ==
    LET token == toks[idx + 1] IN
    IF token.type = "heading_open" /\ HasInline(toks, idx)
    THEN LET level == TagLevel(token.tag)
             node_text == toks[idx + 2].content
             line_number == LineNumber(token)
             parent_id == ParentOf(p)
             popped == PopPath(p, level)
             added == AddNode(m, node_text, level, parent_id, line_number)
         IN [mind_map |-> added.mind_map,
             path |-> Append(popped, added.node_id)]
    ELSE [mind_map |-> m, path |-> p]

\* the pop loop comparing the level of the node on top of the path
RECURSIVE PopByLevel(_, _, _)
PopByLevel(m, p, level) ==
    IF p # <<>> /\ m.nodes[p[Len(p)] + 1].level >= level
    THEN PopByLevel(m, SubSeq(p, 1, Len(p) - 1), level)
    ELSE p

\* the loop body truncating the path by node level
LoopBody_PopByLevel(toks, idx, m, p) ==
    LET token == toks[idx + 1] IN
    IF token.type = "heading_open" /\ HasInline(toks, idx)
    THEN LET level == TagLevel(token.tag)
             node_text == toks[idx + 2].content
             line_number == LineNumber(token)
             popped == PopByLevel(m, p, level)
             parent_id == ParentOf(popped)
             added == AddNode(m, node_text, level, parent_id, line_number)
         IN [mind_map |-> added.mind_map,
             path |-> Append(popped, added.node_id)]
    ELSE [mind_map |-> m, path |-> p]

\* the loop body without the pop loop
LoopBody_NoPop(toks, idx, m, p) ==
    LET token == toks[idx + 1] IN
    IF token.type = "heading_open" /\ HasInline(toks, idx)
    THEN LET level == TagLevel(token.tag)
             node_text == toks[idx + 2].content
             line_number == LineNumber(token)
             parent_id == ParentOf(p)
             added == AddNode(m, node_text, level, parent_id, line_number)
         IN [mind_map |-> added.mind_map,
             path |-> Append(p, added.node_id)]
    ELSE [mind_map |-> m, path |-> p]

\* the loop body keeping path as a table indexed by level: the slot of the
\* level is overwritten and the deeper slots are left as they were
LoopBody_LevelTable(toks, idx, m, p) ==
    LET token == toks[idx + 1] IN
    IF token.type = "heading_open" /\ HasInline(toks, idx)
    THEN LET level == TagLevel(token.tag)
             node_text == toks[idx + 2].content
             line_number == LineNumber(token)
             parent_id == IF Len(p) >= level
                          THEN (IF level > 1 THEN p[level - 1] ELSE None)
                          ELSE ParentOf(p)
             added == AddNode(m, node_text, level, parent_id, line_number)
         IN [mind_map |-> added.mind_map,
             path |-> IF Len(p) >= level
                      THEN [p EXCEPT ![level] = added.node_id]
                      ELSE Append(p, added.node_id)]
    ELSE [mind_map |-> m, path |-> p]

\* lines 202-222: the body of the while loop for tokens[idx] (idx counts from 0)
LoopBody(toks, idx, m, p) ==
    LET token == toks[idx + 1] IN
    IF token.type = "heading_open" /\ HasInline(toks, idx)
    THEN LET level == TagLevel(token.tag)
             node_text == toks[idx + 2].content
             line_number == LineNumber(token)
             popped == PopPath(p, level)
             parent_id == ParentOf(popped)
             added == AddNode(m, node_text, level, parent_id, line_number)
         IN [mind_map |-> added.mind_map,
             path |-> Append(popped, added.node_id)]
    ELSE [mind_map |-> m, path |-> p]

\* src/main.py, MindMap.add_node of the MindMap without plugins
PlainAddNode(m, label, level, parent_id, line_number) ==
    LET node_id == m.node_counter
        node == [id |-> node_id,
                 label |-> label,
                 level |-> level,
                 hidden |-> (level > 1),
                 line_number |-> line_number]
    IN [mind_map |->
            [m EXCEPT !.node_counter = node_id + 1,
                      !.nodes = Append(m.nodes, node),
                      !.edges = IF parent_id # None
                                THEN Append(m.edges, [from |-> parent_id, to |-> node_id])
                                ELSE m.edges],
        node_id |-> node_id]

\* src/main.py, lines 404-424: the loop body with the MindMap without plugins
PlainLoopBody(toks, idx, m, p) ==
    LET token == toks[idx + 1] IN
    IF token.type = "heading_open" /\ idx + 1 < Len(toks) /\ toks[idx + 2].type = "inline"
    THEN LET level == TagLevel(token.tag)
             node_text == toks[idx + 2].content
             line_number == IF token.map # <<>> THEN token.map[1] + 1 ELSE None
             popped == PopPath(p, level)
             parent_id == ParentOf(popped)
             added == PlainAddNode(m, node_text, level, parent_id, line_number)
         IN [mind_map |-> added.mind_map,
             path |-> Append(popped, added.node_id)]
    ELSE [mind_map |-> m, path |-> p]

\* src/main.py, the while loop from token idx on, stopped when i reaches n
RECURSIVE PlainRunStepsFrom(_, _, _, _, _)
PlainRunStepsFrom(toks, idx, n, m, p) ==
    IF idx < n
    THEN LET r == PlainLoopBody(toks, idx, m, p)
         IN PlainRunStepsFrom(toks, idx + 1, n, r.mind_map, r.path)
    ELSE [mind_map |-> m, path |-> p]

\* src/main.py, lines 399-425 stopped after n iterations of the while loop
PlainRunSteps(toks, n) ==
    PlainRunStepsFrom(toks, 0, n, [nodes |-> <<>>, edges |-> <<>>, node_counter |-> 0], <<>>)

\* the whole while loop, from token idx on
RECURSIVE RunFrom(_, _, _, _)
RunFrom(toks, idx, m, p) ==
    IF idx < Len(toks)
    THEN LET r == LoopBody(toks, idx, m, p)
         IN RunFrom(toks, idx + 1, r.mind_map, r.path)
    ELSE [mind_map |-> m, path |-> p]

\* lines 197-223 on a token stream, with the given configuration
RunWith(toks, cfg) == RunFrom(toks, 0, MindMapWith(cfg), <<>>)

\* the while loop from token idx on, stopped when i reaches n
RECURSIVE RunStepsFrom(_, _, _, _, _)
RunStepsFrom(toks, idx, n, m, p) ==
    IF idx < n
    THEN LET r == LoopBody(toks, idx, m, p)
         IN RunStepsFrom(toks, idx + 1, n, r.mind_map, r.path)
    ELSE [mind_map |-> m, path |-> p]

\* lines 197-223 stopped after n iterations of the while loop
RunSteps(toks, n, cfg) == RunStepsFrom(toks, 0, n, MindMapWith(cfg), <<>>)

\* lines 197-223 on a token stream, with the configuration of this invocation
Run(toks) == RunWith(toks, config)

(* ------------------------------ failures ------------------------------- *)

NoFailure == [type |-> "", msg |-> ""]

FileNotFound == [type |-> "FileNotFoundError", msg |-> "Input file not found."]

NotAFile == [type |-> "ValueError", msg |-> "is not a file."]

PermissionDenied == [type |-> "PermissionError", msg |-> "Permission denied: Cannot read."]

Undecodable == [type |-> "ValueError", msg |-> "Unable to decode as UTF-8."]

ReadError == [type |-> "OSError", msg |-> "Error reading."]

EmptyFile == [type |-> "ValueError", msg |-> "Input file is empty."]

ParseError == [type |-> "RuntimeError", msg |-> "Error parsing markdown content."]

\* the zero-heading failure raised with the message of the empty file
NoHeadings_AsEmptyFile == [type |-> "ValueError", msg |-> "Input file is empty."]

NoHeadings == [type |-> "ValueError", msg |-> "No valid headings found."]

\* raised by from_frontmatter, which parse_markdown calls outside any try
NoGetAttribute == [type |-> "AttributeError", msg |-> "object has no attribute 'get'"]

(* ------------------------------ to_vis_data ---------------------------- *)

\* json.dumps of an optional integer
JsonInt(v) == IF v = None THEN "null" ELSE ToString(v)

JsonBool(b) == IF b THEN "true" ELSE "false"

\* json.dumps of a node dict: the keys in insertion order
JsonNode(n) ==
    << <<"id", JsonInt(n.id)>>, <<"label", n.label>>, <<"level", JsonInt(n.level)>>,
       <<"hidden", JsonBool(n.hidden)>>, <<"line_number", JsonInt(n.line_number)>> >>

JsonEdge(e) == << <<"from", JsonInt(e.from)>>, <<"to", JsonInt(e.to)>> >>

\* to_vis_data emitting the nodes and the edges newest first
ToVisData_Reversed(m) ==
    [nodes_json |-> [k \in 1..Len(m.nodes) |-> JsonNode(m.nodes[Len(m.nodes) + 1 - k])],
     edges_json |-> [k \in 1..Len(m.edges) |-> JsonEdge(m.edges[Len(m.edges) + 1 - k])]]

\* MindMap.to_vis_data
ToVisData(m) ==
    [nodes_json |-> [k \in 1..Len(m.nodes) |-> JsonNode(m.nodes[k])],
     edges_json |-> [k \in 1..Len(m.edges) |-> JsonEdge(m.edges[k])]]

(* ------------------------------- actions ------------------------------- *)

\* external_config is None (line 147)
NoConfig == [plugins |-> << >>, theme |-> "None", layout |-> "None",
             toolbar |-> FALSE, max_width |-> 0]

\* main() is not running: parse_markdown is called with its default arguments
NoMain ==
    [pc |-> "idle", args |-> << >>, config |-> NoConfig, status |-> None,
     success |-> FALSE, written |-> FALSE, markdown_content |-> ""]

\* PluginManager(): the four default plugins, every Plugin.enabled is True;
\* calls are the calls made since, returned is the value of the last call
NewPluginManager ==
    [enabled |-> [p \in PluginNames |-> TRUE], calls |-> << >>, returned |-> << >>]

\* the state of a second invocation of parse_markdown that has not started
NoInvocation ==
    [pc |-> "idle", tokens |-> <<>>, i |-> 0, path |-> <<>>,
     mind_map |-> NewMindMap, failure |-> NoFailure]

\* a document made of headings with text only
HeadingDoc(levels) == DocTokens([k \in 1..Len(levels) |-> <<"heading", levels[k]>>], 1)

\* the documents drawn for two invocations that run together
PairStreams ==
    {HeadingDoc(l) : l \in UNION {[1..n -> 1..MaxLevel] : n \in 0..MaxPairLines}}
        \cup {<<HeadingOpen(1, <<0, 1>>), Inline(":star:")>>}

\* the documents drawn with every frontmatter: one heading or less over the
\* whole token alphabet, and the documents of headings with text
ConfiguredStreams == {t \in ShortStreams : Len(t) <= 2} \cup PairStreams

Init ==
    /\ file \in FileKinds
    /\ tokens \in (IF file = "text" THEN TokenStreams \cup PairStreams ELSE {<<>>})
    /\ pc = "validate"
    /\ i = 0
    /\ path = <<>>
    /\ mind_map = NewMindMap
    /\ failure = NoFailure
    /\ nodes_json = <<>>
    /\ edges_json = <<>>
    /\ frontmatter \in (IF file = "text" /\ tokens \in ConfiguredStreams
                        THEN Frontmatters ELSE {NoFrontmatter})
    /\ config = DefaultConfig
    /\ content_start = 0
    /\ other = NoInvocation
    /\ main = NoMain
    /\ plugin_manager = NewPluginManager

Raise(f) ==
    /\ pc' = "failed"
    /\ failure' = f
    /\ UNCHANGED <<file, tokens, i, path, mind_map, nodes_json, edges_json,
                   frontmatter, config, content_start, other,
                   main, plugin_manager>>

Goto(l) ==
    /\ pc' = l
    /\ UNCHANGED <<file, tokens, i, path, mind_map, failure, nodes_json, edges_json,
                   frontmatter, config, content_start, other,
                   main, plugin_manager>>

\* lines 163-167
ValidateInput ==
    /\ pc = "validate"
    /\ IF file = "missing" THEN Raise(FileNotFound)
       ELSE IF file = "directory" THEN Raise(NotAFile)
       ELSE Goto("read")

\* lines 169-177
ReadFile ==
    /\ pc = "read"
    /\ IF file = "unreadable" THEN Raise(PermissionDenied)
       ELSE IF file = "undecodable" THEN Raise(Undecodable)
       ELSE IF file = "ioerror" THEN Raise(ReadError)
       ELSE Goto("check_empty")

\* lines 180-181
CheckEmpty ==
    /\ pc = "check_empty"
    /\ IF file \in {"empty", "blank"} THEN Raise(EmptyFile) ELSE Goto("frontmatter")

\* lines 183-188: main.config is the external_config argument
ExtractFrontmatter ==
    /\ pc = "frontmatter"
    /\ ~FromFrontmatter(frontmatter).raises
    /\ LET r == FromFrontmatter(frontmatter)
       IN /\ config' = IF main.config # NoConfig THEN main.config ELSE r.config
          /\ content_start' = r.content_start
    /\ pc' = "tokenize"
    /\ UNCHANGED <<file, tokens, i, path, mind_map, failure, nodes_json, edges_json,
                   frontmatter, other,
                   main, plugin_manager>>

\* line 184 when from_frontmatter raises
FrontmatterFails ==
    /\ pc = "frontmatter"
    /\ FromFrontmatter(frontmatter).raises
    /\ Raise(NoGetAttribute)

\* lines 190-200
Tokenize ==
    /\ pc = "tokenize"
    /\ IF file = "unparseable" THEN Raise(ParseError)
       ELSE /\ pc' = "scan"
            /\ mind_map' = MindMapWith(config)
            /\ path' = <<>>
            /\ i' = 0
            /\ UNCHANGED <<file, tokens, failure, nodes_json, edges_json,
                           frontmatter, config, content_start, other,
                   main, plugin_manager>>

\* one iteration that steps over the inline token of a heading it processed
ScanToken_SkipInline ==
    /\ pc = "scan"
    /\ i < Len(tokens)
    /\ LET r == LoopBody(tokens, i, mind_map, path)
       IN /\ mind_map' = r.mind_map
          /\ path' = r.path
          /\ i' = IF r.path # path THEN i + 2 ELSE i + 1
    /\ UNCHANGED <<file, tokens, pc, failure, nodes_json, edges_json,
                   frontmatter, config, content_start, other,
                   main, plugin_manager>>

\* lines 201-223: one iteration of the while loop
ScanToken ==
    /\ pc = "scan"
    /\ i < Len(tokens)
    /\ LET r == LoopBody(tokens, i, mind_map, path)
       IN /\ mind_map' = r.mind_map
          /\ path' = r.path
    /\ i' = i + 1
    /\ UNCHANGED <<file, tokens, pc, failure, nodes_json, edges_json,
                   frontmatter, config, content_start, other,
                   main, plugin_manager>>

\* the end of the scan without the check of lines 226-227
FinishScan_NoCheck ==
    /\ pc = "scan"
    /\ ~(i < Len(tokens))
    /\ pc' = "returned"
    /\ UNCHANGED <<file, tokens, i, path, mind_map, failure, nodes_json, edges_json,
                   frontmatter, config, content_start, other,
                   main, plugin_manager>>

\* lines 225-229
FinishScan ==
    /\ pc = "scan"
    /\ ~(i < Len(tokens))
    /\ IF mind_map.nodes = <<>> THEN Raise(NoHeadings) ELSE Goto("returned")

\* MindMap.render, lines 93-94: the serialisation of the returned mind map;
\* render is called on it directly, or by main at line 350
Render ==
    /\ pc = "returned"
    /\ main.pc \in {"idle", "render"}
    /\ LET d == ToVisData(mind_map)
       IN /\ nodes_json' = d.nodes_json
          /\ edges_json' = d.edges_json
    /\ pc' = "rendered"
    /\ UNCHANGED <<file, tokens, i, path, mind_map, failure,
                   frontmatter, config, content_start, other,
                   main, plugin_manager>>

Next ==
    \/ ValidateInput
    \/ ReadFile
    \/ CheckEmpty
    \/ ExtractFrontmatter
    \/ FrontmatterFails
    \/ Tokenize
    \/ ScanToken
    \/ FinishScan
    \/ Render

Spec == Init /\ [][Next]_vars

\* the documents whose lines are headings of any level, level-1 headings
\* without text and paragraphs
ScanDocuments ==
    LET kinds == ({"heading"} \X (1..MaxLevel)) \cup {<<"empty", 1>>, <<"paragraph", 0>>}
    IN {DocTokens(d, 1) : d \in UNION {[1..n -> kinds] : n \in 0..MaxHeadings}}

\* parse_markdown called on a file whose text, if it has one, is one of
\* these documents
InitDocument ==
    /\ file \in FileKinds
    /\ tokens \in (IF file = "text" THEN ScanDocuments \cup {ExampleRoundTrip} ELSE {<<>>})
    /\ pc = "validate"
    /\ i = 0
    /\ path = <<>>
    /\ mind_map = NewMindMap
    /\ failure = NoFailure
    /\ nodes_json = <<>>
    /\ edges_json = <<>>
    /\ frontmatter \in (IF file = "text" /\ Len(tokens) <= 1
                        THEN Frontmatters ELSE {NoFrontmatter})
    /\ config = DefaultConfig
    /\ content_start = 0
    /\ other = NoInvocation
    /\ main = NoMain
    /\ plugin_manager = NewPluginManager

\* parse_markdown is sequential code: a step that can be taken is taken
SpecTerminating == InitDocument /\ [][Next]_vars /\ WF_vars(Next)

(* -------------------------------- main --------------------------------- *)

\* config.get_theme: the entry of THEMES
GetTheme(theme_name) == [DefaultConfig EXCEPT !.theme = theme_name]

\* MindMapConfig.from_file: a file that sets layout and plugins, or defaults
\* when the file is missing or is not YAML
FromFile(config_file) ==
    IF config_file = "loaded"
    THEN [DefaultConfig EXCEPT !.layout = "tree", !.plugins = EmojiOff]
    ELSE DefaultConfig

\* lines 296-308: --config, then --theme
LoadConfig(args) ==
    LET loaded == IF args.config \in {"loaded", "missing"}
                  THEN FromFile(args.config)
                  ELSE NoConfig
    IN IF args.theme # "none" THEN GetTheme(args.theme) ELSE loaded

\* lines 320-334: --disable-plugins, then --enable-only, on config.plugins
OverridePlugins(plugins, args) ==
    LET disabled == [p \in DOMAIN plugins |->
                        IF p \in args.disable_plugins /\ plugins[p] # "absent"
                        THEN "false" ELSE plugins[p]]
    IN IF args.enable_only = {} THEN disabled
       ELSE [p \in DOMAIN plugins |->
                IF disabled[p] = "absent" THEN "absent"
                ELSE IF p \in args.enable_only THEN "true" ELSE "false"]

\* lines 310-334: every override is guarded by 'if config and ...'
Overrides(cfg, args) ==
    IF cfg = NoConfig THEN NoConfig
    ELSE [cfg EXCEPT
             !.toolbar = IF args.no_toolbar THEN FALSE ELSE cfg.toolbar,
             !.max_width = IF args.max_width # None THEN args.max_width ELSE cfg.max_width,
             !.layout = IF args.layout # "none" THEN args.layout ELSE cfg.layout,
             !.plugins = OverridePlugins(cfg.plugins, args)]

\* the command lines drawn
MainArgs ==
    [config : {"none", "loaded", "missing", "unloadable"},
     theme : {"none", "dark"},
     layout : {"none", "radial"},
     no_toolbar : BOOLEAN,
     max_width : {None, 300},
     disable_plugins : {{}, {"emoji"}},
     enable_only : {{}, {"math"}},
     output : {"writable", "unwritable"}]

\* the documents drawn for main: no heading, one heading, two headings
MainStreams ==
    {<<Other>>,
     <<HeadingOpen(1, <<0, 1>>), Inline(":star:")>>,
     HeadingLine(1, "A", 0) \o HeadingLine(2, "A", 1)}

InitMain ==
    /\ file \in FileKinds
    /\ tokens \in (IF file = "text" THEN MainStreams ELSE {<<>>})
    /\ pc = "idle"
    /\ i = 0
    /\ path = <<>>
    /\ mind_map = NewMindMap
    /\ failure = NoFailure
    /\ nodes_json = <<>>
    /\ edges_json = <<>>
    /\ frontmatter \in (IF file = "text" THEN Frontmatters ELSE {NoFrontmatter})
    /\ config = DefaultConfig
    /\ content_start = 0
    /\ other = NoInvocation
    /\ main \in {[NoMain EXCEPT !.pc = "start", !.args = a] : a \in MainArgs}
    /\ plugin_manager = NewPluginManager

\* a step of main that leaves parse_markdown and the mind map alone
MainStep(m) ==
    /\ main' = m
    /\ UNCHANGED <<file, tokens, pc, i, path, mind_map, failure, nodes_json, edges_json,
                   frontmatter, config, content_start, other, plugin_manager>>

\* sys.exit(1), reached from the except clauses of lines 344-362
Exit1 == [main EXCEPT !.pc = "exited", !.status = 1]

\* lines 286-294: validate_output_path raises for a directory that cannot be
\* written, which line 360 turns into exit status 1
MainValidateOutput ==
    /\ main.pc = "start"
    /\ MainStep(IF main.args.output = "unwritable" THEN Exit1
                ELSE [main EXCEPT !.pc = "load_config"])

\* lines 296-308
MainLoadConfig ==
    /\ main.pc = "load_config"
    /\ MainStep([main EXCEPT !.pc = "overrides", !.config = LoadConfig(main.args)])

\* lines 310-334
MainOverrides ==
    /\ main.pc = "overrides"
    /\ MainStep([main EXCEPT !.pc = "parse",
                             !.config = Overrides(main.config, main.args)])

\* line 338: the call of parse_markdown(args.input_file, config)
MainCallParse ==
    /\ main.pc = "parse"
    /\ pc = "idle"
    /\ pc' = "validate"
    /\ main' = [main EXCEPT !.pc = "parsing"]
    /\ UNCHANGED <<file, tokens, i, path, mind_map, failure, nodes_json, edges_json,
                   frontmatter, config, content_start, other, plugin_manager>>

\* parse_markdown raised and main ends with status 0
MainParseFailed_ExitZero ==
    /\ main.pc = "parsing"
    /\ pc = "failed"
    /\ MainStep([main EXCEPT !.pc = "exited", !.status = 0])

\* lines 344-346 and 360-362: parse_markdown raised
MainParseFailed ==
    /\ main.pc = "parsing"
    /\ pc = "failed"
    /\ MainStep(Exit1)

\* lines 338-350: parse_markdown returned (mind_map, original_content) and
\* main goes on to render
MainParseReturned ==
    /\ main.pc = "parsing"
    /\ pc = "returned"
    /\ MainStep([main EXCEPT !.pc = "render", !.markdown_content = "original"])

\* lines 102-145 and 351-355: the rest of render and what follows it; the
\* template may be missing and the output file may not be writable
MainFinishRender ==
    /\ main.pc = "render"
    /\ pc = "rendered"
    /\ \E outcome \in {"written", "no template", "not writable"} :
           MainStep(IF outcome = "written"
                    THEN [main EXCEPT !.pc = "exited", !.status = 0,
                                      !.written = TRUE, !.success = TRUE]
                    ELSE Exit1)

NextMain ==
    \/ Next
    \/ MainValidateOutput
    \/ MainLoadConfig
    \/ MainOverrides
    \/ MainCallParse
    \/ MainParseFailed
    \/ MainParseReturned
    \/ MainFinishRender

\* main is sequential code: a step that can be taken is taken
SpecMain == InitMain /\ [][NextMain]_vars /\ WF_vars(NextMain)

(* ------------------- calls on a PluginManager -------------------------- *)

\* a name no plugin is registered under
Unregistered == "mermaid"

CallNames == PluginNames \cup {Unregistered}

\* the 'plugins' mappings passed to configure_plugins
PluginSettings ==
    {[n \in CallNames |-> "absent"],
     [n \in CallNames |-> IF n = "emoji" THEN "false" ELSE "absent"],
     [n \in CallNames |-> IF n = Unregistered THEN "absent" ELSE "false"],
     [n \in CallNames |-> IF n = Unregistered THEN "absent" ELSE "true"],
     [n \in CallNames |-> IF n = Unregistered THEN "false" ELSE "absent"],
     [n \in CallNames |->
         CASE n = "math" -> "dict_off"
           [] n = "links" -> "dict"
           [] n = "emoji" -> "dict_on"
           [] OTHER -> "absent"]}

\* the texts passed to process_content
CallContents == {":star:", LinkToMath}

InitPlugins ==
    /\ file = "text"
    /\ tokens = << >>
    /\ pc = "idle"
    /\ i = 0
    /\ path = << >>
    /\ mind_map = NewMindMap
    /\ failure = NoFailure
    /\ nodes_json = << >>
    /\ edges_json = << >>
    /\ frontmatter = NoFrontmatter
    /\ config = DefaultConfig
    /\ content_start = 0
    /\ other = NoInvocation
    /\ main = NoMain
    /\ plugin_manager = NewPluginManager

\* a call that changes flags: it is logged and returns None
Update(call, enabled) ==
    /\ Len(plugin_manager.calls) < MaxCalls
    /\ plugin_manager' = [enabled |-> enabled,
                          calls |-> Append(plugin_manager.calls, call),
                          returned |-> << >>]
    /\ UNCHANGED <<file, tokens, pc, i, path, mind_map, failure, nodes_json, edges_json,
                   frontmatter, config, content_start, other, main>>

\* a call that reads the flags and returns a value
Return(value) ==
    /\ plugin_manager' = [plugin_manager EXCEPT !.returned = value]
    /\ UNCHANGED <<file, tokens, pc, i, path, mind_map, failure, nodes_json, edges_json,
                   frontmatter, config, content_start, other, main>>

CallEnablePlugin ==
    \E name \in CallNames :
        Update(<<"enable_plugin", name>>, EnablePlugin(plugin_manager.enabled, name))

CallDisablePlugin ==
    \E name \in CallNames :
        Update(<<"disable_plugin", name>>, DisablePlugin(plugin_manager.enabled, name))

CallConfigurePlugins ==
    \E plugins_config \in PluginSettings :
        Update(<<"configure_plugins", plugins_config>>,
               ConfigurePlugins(plugin_manager.enabled, plugins_config))

CallGetEnabledPlugins ==
    Return(<<"get_enabled_plugins", GetEnabledPlugins(plugin_manager.enabled)>>)

CallProcessContent ==
    \E content \in CallContents :
        Return(<<"process_content", content,
                 ProcessContent(plugin_manager.enabled, content)>>)

CallGetAllAssets ==
    Return(<<"get_all_assets", GetAllAssets(plugin_manager.enabled)>>)

NextPlugins ==
    \/ CallEnablePlugin
    \/ CallDisablePlugin
    \/ CallConfigurePlugins
    \/ CallGetEnabledPlugins
    \/ CallProcessContent
    \/ CallGetAllAssets

SpecPlugins == InitPlugins /\ [][NextPlugins]_vars

(* ---------------------- two invocations together ----------------------- *)

\* a second call of parse_markdown has read its document, which has no
\* frontmatter, and is about to build its MindMap; the document of the first
\* call has a frontmatter block only when it has one heading or none
InitConcurrent ==
    /\ file = "text"
    /\ tokens \in PairStreams
    /\ pc = "validate"
    /\ i = 0
    /\ path = <<>>
    /\ mind_map = NewMindMap
    /\ failure = NoFailure
    /\ nodes_json = <<>>
    /\ edges_json = <<>>
    /\ frontmatter \in
           {NoFrontmatter}
           \cup (IF Len(tokens) <= 2
                 THEN {[kind |-> "valid", keys |-> {"plugins"}, plugins |-> EmojiOff,
                        theme |-> "default"],
                       [kind |-> "scalar", keys |-> {}, plugins |-> DefaultPlugins,
                        theme |-> "default"]}
                 ELSE {})
    /\ config = DefaultConfig
    /\ content_start = 0
    /\ other \in {[NoInvocation EXCEPT !.pc = "tokenize", !.tokens = t] : t \in PairStreams}
    /\ main = NoMain
    /\ plugin_manager = NewPluginManager

\* the second invocation building a MindMap whose lists are those of the first
OtherConstruct_SharedLists ==
    /\ other.pc = "tokenize"
    /\ other' = [other EXCEPT !.pc = "scan",
                              !.mind_map = [MindMapWith(DefaultConfig) EXCEPT
                                               !.nodes = mind_map.nodes,
                                               !.edges = mind_map.edges,
                                               !.node_counter = mind_map.node_counter],
                              !.path = <<>>,
                              !.i = 0]
    /\ UNCHANGED <<file, tokens, pc, i, path, mind_map, failure, nodes_json, edges_json,
                   frontmatter, config, content_start,
                   main, plugin_manager>>

\* lines 197-200 in the second invocation
OtherConstruct ==
    /\ other.pc = "tokenize"
    /\ other' = [other EXCEPT !.pc = "scan",
                              !.mind_map = MindMapWith(DefaultConfig),
                              !.path = <<>>,
                              !.i = 0]
    /\ UNCHANGED <<file, tokens, pc, i, path, mind_map, failure, nodes_json, edges_json,
                   frontmatter, config, content_start,
                   main, plugin_manager>>

\* lines 201-223 in the second invocation: one iteration of the while loop
OtherScanToken ==
    /\ other.pc = "scan"
    /\ other.i < Len(other.tokens)
    /\ LET r == LoopBody(other.tokens, other.i, other.mind_map, other.path)
       IN other' = [other EXCEPT !.mind_map = r.mind_map,
                                 !.path = r.path,
                                 !.i = other.i + 1]
    /\ UNCHANGED <<file, tokens, pc, i, path, mind_map, failure, nodes_json, edges_json,
                   frontmatter, config, content_start,
                   main, plugin_manager>>

\* lines 225-229 in the second invocation
OtherFinishScan ==
    /\ other.pc = "scan"
    /\ ~(other.i < Len(other.tokens))
    /\ other' = IF other.mind_map.nodes = <<>>
                THEN [other EXCEPT !.pc = "failed", !.failure = NoHeadings]
                ELSE [other EXCEPT !.pc = "returned"]
    /\ UNCHANGED <<file, tokens, pc, i, path, mind_map, failure, nodes_json, edges_json,
                   frontmatter, config, content_start,
                   main, plugin_manager>>

NextConcurrent ==
    \/ Next
    \/ OtherConstruct
    \/ OtherScanToken
    \/ OtherFinishScan

SpecConcurrent == InitConcurrent /\ [][NextConcurrent]_vars

(* ------------------------- reading the graph --------------------------- *)

Nodes == mind_map.nodes

Edges == mind_map.edges

NodeIds == {Nodes[k].id : k \in 1..Len(Nodes)}

\* the stored node with the given id
NodeOf(id) == Nodes[CHOOSE k \in 1..Len(Nodes) : Nodes[k].id = id]

\* the 'from' ends of the edges whose 'to' end is id
ParentsOf(id) == {Edges[k].from : k \in {j \in 1..Len(Edges) : Edges[j].to = id}}

\* the number of edges whose 'to' end is id
InDegree(id) == Cardinality({j \in 1..Len(Edges) : Edges[j].to = id})

SetMax(S) == CHOOSE x \in S : \A y \in S : y <= x

\* the while loop has consumed every token
ScanDone ==
    \/ pc \in {"returned", "rendered"}
    \/ pc = "scan" /\ i = Len(tokens)
    \/ pc = "failed" /\ file = "text" /\ ~FromFrontmatter(frontmatter).raises

\* toks[k] is a heading_open followed by an inline token (k counts from 1)
IsHeading(toks, k) ==
    /\ toks[k].type = "heading_open"
    /\ k < Len(toks)
    /\ toks[k + 1].type = "inline"

\* toks[k] is a heading_open not followed by an inline token
IsEmptyHeading(toks, k) ==
    /\ toks[k].type = "heading_open"
    /\ (k = Len(toks) \/ toks[k + 1].type # "inline")

\* the positions of the headings among the first n tokens, in document order
RECURSIVE HeadingPositions(_, _)
HeadingPositions(toks, n) ==
    IF n = 0 THEN <<>>
    ELSE IF IsHeading(toks, n)
         THEN Append(HeadingPositions(toks, n - 1), n)
         ELSE HeadingPositions(toks, n - 1)

\* the token stream without its k-th token
RemoveAt(toks, k) == SubSeq(toks, 1, k - 1) \o SubSeq(toks, k + 1, Len(toks))

\* the ids reachable from id along at least one edge, within n more steps
RECURSIVE Descendants(_, _)
Descendants(S, n) ==
    LET step == S \cup {Edges[k].to : k \in {j \in 1..Len(Edges) : Edges[j].from \in S}}
    IN IF n = 0 \/ step = S THEN S ELSE Descendants(step, n - 1)

Children(id) == {Edges[k].to : k \in {j \in 1..Len(Edges) : Edges[j].from = id}}

(* -------------------------------- C1 ----------------------------------- *)

\* C1: the parent of every node n of level L is the node with the largest id
\* among the nodes with a smaller id and a level < L, and n has no parent
\* edge when there is no such node.
ParentInvariant ==
    \A k \in 1..Len(Nodes) :
        LET n == Nodes[k]
            cands == {Nodes[j].id : j \in {h \in 1..Len(Nodes) :
                          Nodes[h].id < n.id /\ Nodes[h].level < n.level}}
        IN IF cands = {} THEN ParentsOf(n.id) = {}
           ELSE ParentsOf(n.id) = {SetMax(cands)}

(* -------------------------------- C2 ----------------------------------- *)

\* C2: every edge goes from a node of lower level to a node of higher level.
EdgeLevelsIncrease ==
    \A k \in 1..Len(Edges) :
        NodeOf(Edges[k].from).level < NodeOf(Edges[k].to).level

(* -------------------------------- C3 ----------------------------------- *)

\* C3: the k-th created node (from 0) has id k, node_counter is the number
\* of nodes, and the node with id k is the one of the k-th heading of the
\* token stream, so ids increase in document order.
IdsSequential ==
    LET hp == HeadingPositions(tokens, i) IN
    /\ mind_map.node_counter = Len(Nodes)
    /\ \A k \in 1..Len(Nodes) : Nodes[k].id = k - 1
    /\ \A k \in 1..Len(Nodes) : \A j \in 1..Len(Nodes) :
           k < j => Nodes[k].id < Nodes[j].id
    /\ Len(hp) = Len(Nodes)
    /\ \A k \in 1..Len(Nodes) :
           /\ Nodes[k].line_number =
                  (IF tokens[hp[k]].map = <<>> THEN None ELSE tokens[hp[k]].map[1] + 1)
           /\ tokens[hp[k] + 1].content = "A" => Nodes[k].label = "A"

\* three headings have been turned into nodes
IdsSequentialWitness ==
    /\ pc = "returned"
    /\ Len(Nodes) >= 3
    /\ Nodes[3].id = 2

(* -------------------------------- C4 ----------------------------------- *)

\* C4: in every state the edges are acyclic and every node is the 'to' end
\* of at most one edge.
ForestInvariant ==
    /\ \A id \in NodeIds : InDegree(id) <= 1
    /\ \A id \in NodeIds : id \notin Descendants(Children(id), Len(Nodes))

\* a node with two children, one of which has a child of its own
ForestWitness ==
    /\ Len(Edges) >= 3
    /\ \E id \in NodeIds : Cardinality(Children(id)) >= 2
    /\ \E id \in NodeIds : Children(id) # {} /\ ParentsOf(id) # {}

(* -------------------------------- C5 ----------------------------------- *)

ExampleMultiRoot == DocTokens(<< <<"heading", 1>>, <<"heading", 1>> >>, 1)

\* C5: the first node and every level-1 node is the 'to' end of no edge;
\* two level-1 headings give 2 nodes and 0 edges.
RootsHaveNoParent ==
    /\ \A k \in 1..Len(Nodes) :
           (k = 1 \/ Nodes[k].level = 1) => InDegree(Nodes[k].id) = 0
    /\ (tokens = ExampleMultiRoot /\ ScanDone) => (Len(Nodes) = 2 /\ Edges = <<>>)

\* a level-1 heading that follows a deeper heading which has a parent
RootsWitness ==
    /\ pc = "returned"
    /\ \E k \in 2..Len(Nodes) :
           /\ Nodes[k].level = 1
           /\ Nodes[k - 1].level > 1
           /\ InDegree(Nodes[k - 1].id) = 1

(* -------------------------------- C6 ----------------------------------- *)

ExampleSkipLevel == DocTokens(<< <<"heading", 1>>, <<"heading", 3>> >>, 1)

\* C6: there is exactly one node per heading_open followed by an inline
\* token, carrying that heading's level; level 1 then level 3 gives exactly
\* 2 nodes and the single edge 0 -> 1.
NoSyntheticNodes ==
    LET hp == HeadingPositions(tokens, i) IN
    /\ Len(Nodes) = Cardinality({k \in 1..i : IsHeading(tokens, k)})
    /\ \A k \in 1..Len(Nodes) :
           k <= Len(hp) => Nodes[k].level = TagLevel(tokens[hp[k]].tag)
    /\ (tokens = ExampleSkipLevel /\ ScanDone) =>
           (Len(Nodes) = 2 /\ Edges = <<[from |-> 0, to |-> 1]>>)

\* the level-1, level-3 document has been scanned
NoSyntheticWitness ==
    /\ pc = "returned"
    /\ tokens = ExampleSkipLevel
    /\ Len(Nodes) = 2

(* -------------------------------- C7 ----------------------------------- *)

\* C7: a heading_open that is not followed by an inline token changes
\* nothing: the mind map and the path at the end of the scan are those
\* produced from the token stream with that token removed.
EmptyHeadingSkipped ==
    ScanDone =>
        \A k \in 1..Len(tokens) :
            IsEmptyHeading(tokens, k) =>
                Run(RemoveAt(tokens, k)) = [mind_map |-> mind_map, path |-> path]

\* a heading without text between two headings with text
EmptyHeadingWitness ==
    /\ pc = "returned"
    /\ Len(Nodes) >= 2
    /\ \E k \in 1..Len(tokens) :
           /\ IsEmptyHeading(tokens, k)
           /\ \E a \in 1..(k - 1) : IsHeading(tokens, a)
           /\ \E b \in (k + 1)..Len(tokens) : IsHeading(tokens, b)

(* -------------------------------- C8 ----------------------------------- *)

\* C8: a token stream without any heading ends in the 'No valid headings
\* found' failure, and a returned mind map has at least one node.
ZeroHeadingFailure ==
    /\ pc \in {"returned", "rendered"} => Len(Nodes) >= 1
    /\ (ScanDone /\ pc # "scan" /\ HeadingPositions(tokens, Len(tokens)) = <<>>) =>
           (pc = "failed" /\ failure = NoHeadings)

\* a document with tokens but no heading has failed
ZeroHeadingWitness ==
    /\ pc = "failed"
    /\ failure = NoHeadings
    /\ tokens # <<>>

(* -------------------------------- C9 ----------------------------------- *)

\* the condition parse_markdown met, read from its input
MetCondition ==
    CASE file = "missing" -> "file not found"
      [] file = "unreadable" -> "permission denied"
      [] file = "undecodable" -> "undecodable file"
      [] file \in {"empty", "blank"} -> "empty input"
      [] file = "text" /\ ~FromFrontmatter(frontmatter).raises -> "zero headings"
      [] OTHER -> "other"

\* the condition a caller reads from the failure value
SignalledCondition(f) ==
    CASE f = [type |-> "FileNotFoundError", msg |-> "Input file not found."] -> "file not found"
      [] f = [type |-> "PermissionError", msg |-> "Permission denied: Cannot read."] -> "permission denied"
      [] f = [type |-> "ValueError", msg |-> "Unable to decode as UTF-8."] -> "undecodable file"
      [] f = [type |-> "ValueError", msg |-> "Input file is empty."] -> "empty input"
      [] f = [type |-> "ValueError", msg |-> "No valid headings found."] -> "zero headings"
      [] OTHER -> "other"

\* C9: the failure value tells the caller which condition was met: zero
\* headings, empty input, file not found, permission denied and undecodable
\* file all give different failure values.
FailuresDistinct ==
    pc = "failed" => SignalledCondition(failure) = MetCondition

\* the zero-heading failure has been raised
FailuresDistinctWitness ==
    /\ pc = "failed"
    /\ file = "text"
    /\ MetCondition = "zero headings"
    /\ failure.type = "ValueError"

(* -------------------------------- C10 ---------------------------------- *)

\* C10: a step creates nodes with hidden = (level > 1) and leaves the hidden
\* flag of every existing node as it was.
HiddenStep ==
    /\ Len(mind_map'.nodes) >= Len(Nodes)
    /\ \A k \in 1..Len(mind_map'.nodes) :
           IF k <= Len(Nodes)
           THEN mind_map'.nodes[k].hidden = Nodes[k].hidden
           ELSE mind_map'.nodes[k].hidden = (mind_map'.nodes[k].level > 1)

DefaultVisibility == [][HiddenStep]_vars

\* a rendered mind map with a visible and a hidden node
DefaultVisibilityWitness ==
    /\ pc = "rendered"
    /\ \E k \in 1..Len(Nodes) : Nodes[k].hidden
    /\ \E k \in 1..Len(Nodes) : ~Nodes[k].hidden

(* -------------------------------- C11 ---------------------------------- *)

\* C11: the line_number of a node is the 1-based number, in the original
\* document (the one render numbers from 1), of the line where its heading
\* begins, also when a frontmatter block was removed before tokenizing.
LineNumberInDocument ==
    LET hp == HeadingPositions(tokens, i) IN
    \A k \in 1..Len(Nodes) :
        (k <= Len(hp) /\ tokens[hp[k]].map # <<>>) =>
            Nodes[k].line_number = content_start + tokens[hp[k]].map[1] + 1

(* -------------------------------- C12 ---------------------------------- *)

\* C12: a heading token with a map of start line s gives line_number s + 1,
\* also for s = 0; line_number is None only when the token has no map.
LineNumberFromMap ==
    LET hp == HeadingPositions(tokens, i) IN
    /\ Len(hp) = Len(Nodes)
    /\ \A k \in 1..Len(Nodes) :
           /\ tokens[hp[k]].map # <<>> =>
                  Nodes[k].line_number = tokens[hp[k]].map[1] + 1
           /\ tokens[hp[k]].map = <<>> <=> Nodes[k].line_number = None

\* a heading that starts at line 0, one that starts later and one with no map
\* have been turned into nodes
LineNumberFromMapWitness ==
    /\ pc = "returned"
    /\ \E k \in 1..Len(Nodes) : Nodes[k].line_number = 1
    /\ \/ \E k \in 1..Len(Nodes) : Nodes[k].line_number > 1
       \/ \E k \in 1..Len(Nodes) : Nodes[k].line_number = None

(* -------------------------------- C13 ---------------------------------- *)

\* the parent_id passed to add_node in a step that pushed the returned id
PassedParent == IF Len(path') > 1 THEN path'[Len(path') - 1] ELSE None

\* C13: a step that calls add_node appends exactly one node whose id is the
\* previous number of nodes and returns that id (it is pushed on path), appends
\* exactly the edge parent_id -> id when a parent_id is passed, 0 included, no
\* edge otherwise, and leaves the stored nodes and edges as they were.
AddNodeStep ==
    (mind_map'.nodes # Nodes \/ mind_map'.edges # Edges
        \/ mind_map'.node_counter # mind_map.node_counter) =>
        /\ Len(mind_map'.nodes) = Len(Nodes) + 1
        /\ SubSeq(mind_map'.nodes, 1, Len(Nodes)) = Nodes
        /\ mind_map'.nodes[Len(Nodes) + 1].id = Len(Nodes)
        /\ mind_map'.node_counter = Len(Nodes) + 1
        /\ path' # <<>>
        /\ path'[Len(path')] = Len(Nodes)
        /\ mind_map'.edges =
               IF PassedParent # None
               THEN Append(Edges, [from |-> PassedParent, to |-> Len(Nodes)])
               ELSE Edges

AddNodeContract == [][AddNodeStep]_vars

\* node 0 has a child and a later node has no parent
AddNodeWitness ==
    /\ pc = "returned"
    /\ \E k \in 1..Len(Edges) : Edges[k].from = 0
    /\ \E k \in 2..Len(Nodes) : InDegree(Nodes[k].id) = 0

(* -------------------------------- C14 ---------------------------------- *)

\* C14: to_vis_data emits one record per stored node, in ascending id order,
\* with the fields id, label, level, hidden, line_number, and one record per
\* stored edge, in creation order (ascending 'to'), with the fields from, to;
\* the mind map is the one the scan produced.
SerializationKeepsOrder ==
    pc = "rendered" =>
        /\ Len(nodes_json) = Len(Nodes)
        /\ Len(edges_json) = Len(Edges)
        /\ \A k \in 1..Len(nodes_json) :
               /\ [f \in 1..5 |-> nodes_json[k][f][1]] =
                      <<"id", "label", "level", "hidden", "line_number">>
               /\ nodes_json[k][1][2] = ToString(k - 1)
               /\ nodes_json[k][2][2] = Nodes[k].label
               /\ nodes_json[k][3][2] = ToString(Nodes[k].level)
               /\ nodes_json[k][4][2] = (IF Nodes[k].level > 1 THEN "true" ELSE "false")
               /\ nodes_json[k][5][2] =
                      (IF Nodes[k].line_number = None THEN "null"
                       ELSE ToString(Nodes[k].line_number))
        /\ \A k \in 1..Len(edges_json) :
               edges_json[k] = << <<"from", ToString(Edges[k].from)>>,
                                  <<"to", ToString(Edges[k].to)>> >>
        /\ \A j \in 1..Len(Edges) : \A k \in 1..Len(Edges) :
               j < k => Edges[j].to < Edges[k].to
        /\ mind_map = Run(tokens).mind_map

\* a mind map of at least three nodes and two edges has been serialised
SerializationWitness ==
    /\ pc = "rendered"
    /\ Len(nodes_json) >= 3
    /\ Len(edges_json) >= 2

(* -------------------------------- C15 ---------------------------------- *)

\* C15: across every step the stored nodes and edges stay where they are
\* with the same field values: the old sequences are prefixes of the new ones.
AppendOnlyStep ==
    /\ Len(mind_map'.nodes) >= Len(Nodes)
    /\ SubSeq(mind_map'.nodes, 1, Len(Nodes)) = Nodes
    /\ Len(mind_map'.edges) >= Len(Edges)
    /\ SubSeq(mind_map'.edges, 1, Len(Edges)) = Edges

AppendOnly == [][AppendOnlyStep]_vars

\* the scan is under way with two nodes and an edge stored and tokens left
AppendOnlyWitness ==
    /\ pc = "scan"
    /\ i < Len(tokens)
    /\ Len(Nodes) >= 2
    /\ Len(Edges) >= 1
    /\ IsHeading(tokens, i + 1)

(* -------------------------------- C16 ---------------------------------- *)

\* C16: with the steps of two invocations interleaved in any order, each
\* holds after its n-th loop iteration the mind map and path it holds when
\* it runs alone, and ends as it ends alone.
InvocationsIndependent ==
    /\ pc \in {"scan", "returned", "rendered"} \/ (pc = "failed" /\ failure = NoHeadings) =>
           /\ [mind_map |-> mind_map, path |-> path] = RunSteps(tokens, i, config)
           /\ pc # "scan" =>
                  /\ i = Len(tokens)
                  /\ pc = "failed" <=> RunWith(tokens, config).mind_map.nodes = <<>>
    /\ other.pc \in {"scan", "returned", "failed"} =>
           /\ [mind_map |-> other.mind_map, path |-> other.path] =
                  RunSteps(other.tokens, other.i, DefaultConfig)
           /\ other.pc # "scan" =>
                  /\ other.i = Len(other.tokens)
                  /\ other.pc = "failed" <=>
                         RunWith(other.tokens, DefaultConfig).mind_map.nodes = <<>>

\* both invocations are in the middle of their scans of different documents,
\* each with a node stored
InvocationsWitness ==
    /\ pc = "scan"
    /\ other.pc = "scan"
    /\ tokens # other.tokens
    /\ Len(Nodes) >= 1
    /\ Len(other.mind_map.nodes) >= 1
    /\ i < Len(tokens)
    /\ other.i < Len(other.tokens)

(* -------------------------------- C17 ---------------------------------- *)

\* a node without its label
Unlabelled(n) ==
    [id |-> n.id, level |-> n.level, hidden |-> n.hidden, line_number |-> n.line_number]

\* C17: whatever plugins the configuration enables, the ids, levels, hidden
\* flags, line numbers and edges are those built by the MindMap without
\* plugins from the same tokens; with every plugin disabled the labels are
\* the inline texts as well.
PluginsChangeLabelsOnly ==
    (pc \in {"scan", "returned", "rendered"} \/ (pc = "failed" /\ file = "text")) =>
        LET plain == PlainRunSteps(tokens, i) IN
        /\ Len(Nodes) = Len(plain.mind_map.nodes)
        /\ \A k \in 1..Len(Nodes) :
               Unlabelled(Nodes[k]) = Unlabelled(plain.mind_map.nodes[k])
        /\ Edges = plain.mind_map.edges
        /\ mind_map.node_counter = plain.mind_map.node_counter
        /\ path = plain.path
        /\ (\A p \in PluginNames : config.plugins[p] = "false") =>
               /\ Nodes = plain.mind_map.nodes
               /\ \A k \in 1..Len(Nodes) :
                      Nodes[k].label = tokens[HeadingPositions(tokens, i)[k] + 1].content

\* every plugin is disabled and a heading whose text is an emoji shortcut
\* has become a node
PluginsWitness ==
    /\ pc = "returned"
    /\ \A p \in PluginNames : config.plugins[p] = "false"
    /\ \E k \in 1..Len(Nodes) : Nodes[k].label = ":star:"

(* -------------------------------- C18 ---------------------------------- *)

\* C18: the headings of "# A\n## B\n## C\n### D\n# E\n" give the nodes
\* (0,A,1), (1,B,2), (2,C,2), (3,D,3), (4,E,1) and the edges 0->1, 0->2, 2->3
\* in that order; E has no parent.
RoundTripScenario ==
    (tokens = ExampleRoundTrip /\ ScanDone) =>
        /\ [k \in 1..Len(Nodes) |-> <<Nodes[k].id, Nodes[k].label, Nodes[k].level>>] =
               << <<0, "A", 1>>, <<1, "B", 2>>, <<2, "C", 2>>, <<3, "D", 3>>, <<4, "E", 1>> >>
        /\ Edges = <<[from |-> 0, to |-> 1], [from |-> 0, to |-> 2], [from |-> 2, to |-> 3]>>
        /\ InDegree(4) = 0

\* the scenario document has been parsed
RoundTripWitness ==
    /\ pc = "returned"
    /\ tokens = ExampleRoundTrip
    /\ Len(Nodes) = 5

(* -------------------------------- C19 ---------------------------------- *)

\* C19: after each heading the levels of the nodes along path increase
\* strictly from the first entry to the last (every entry left by the pop
\* loop has a level below that of the new node).
PathLevelsIncrease ==
    \A j \in 1..Len(path) : \A k \in 1..Len(path) :
        j < k => NodeOf(path[j]).level < NodeOf(path[k]).level

(* -------------------------------- C20 ---------------------------------- *)

\* C20: both ends of every edge are ids of stored nodes and from < to.
EdgesReferenceNodes ==
    \A k \in 1..Len(Edges) :
        /\ Edges[k].from \in NodeIds
        /\ Edges[k].to \in NodeIds
        /\ Edges[k].from < Edges[k].to

\* a rendered mind map with an edge whose parent is not node 0
EdgesReferenceWitness ==
    /\ pc = "rendered"
    /\ \E k \in 1..Len(Edges) : Edges[k].from >= 1

(* -------------------------------- C26 ---------------------------------- *)

\* C26: once a heading has been processed, path is not empty, its ids
\* increase strictly, its last entry is the newest node, its first entry has no
\* incoming edge and every two consecutive entries are the ends of an edge.
PathIsAncestorChain ==
    (pc \in {"scan", "returned", "rendered"} /\ Len(Nodes) >= 1) =>
        /\ path # <<>>
        /\ \A k \in 1..(Len(path) - 1) : path[k] < path[k + 1]
        /\ path[Len(path)] = Nodes[Len(Nodes)].id
        /\ InDegree(path[1]) = 0
        /\ \A k \in 1..(Len(path) - 1) :
               \E e \in 1..Len(Edges) : Edges[e] = [from |-> path[k], to |-> path[k + 1]]

\* the path holds three entries after an earlier branch was closed
PathChainWitness ==
    /\ pc = "scan"
    /\ Len(path) = 3
    /\ Len(Nodes) >= 4

(* -------------------------------- C27 ---------------------------------- *)

\* the levels of the headings among the first n tokens, in document order
HeadingLevels(toks, n) ==
    LET hp == HeadingPositions(toks, n)
    IN [k \in 1..Len(hp) |-> TagLevel(toks[hp[k]].tag)]

\* the first level is 1 and no level is more than one above the one before
NoSkippedLevel(levels) ==
    /\ levels # <<>> => levels[1] = 1
    /\ \A k \in 2..Len(levels) : levels[k] <= levels[k - 1] + 1

\* C27: when the headings processed so far skip no level, path has as many
\* entries as the level of the last heading, its k-th entry has level k, and
\* the parent of every node is the nearest earlier node of smaller level,
\* which is one level above it.
NoSkipAgreesWithLevels ==
    (pc \in {"scan", "returned", "rendered"} /\ Len(Nodes) >= 1
        /\ NoSkippedLevel(HeadingLevels(tokens, i))) =>
        /\ Len(path) = Nodes[Len(Nodes)].level
        /\ \A k \in 1..Len(path) : NodeOf(path[k]).level = k
        /\ \A k \in 1..Len(Nodes) :
               LET n == Nodes[k]
                   cands == {Nodes[j].id : j \in {h \in 1..Len(Nodes) :
                                 Nodes[h].id < n.id /\ Nodes[h].level < n.level}}
               IN IF cands = {} THEN ParentsOf(n.id) = {}
                  ELSE /\ ParentsOf(n.id) = {SetMax(cands)}
                       /\ NodeOf(SetMax(cands)).level = n.level - 1

\* levels 1, 2, 3 and back to 2 have been processed without a skipped level
NoSkipWitness ==
    /\ pc = "returned"
    /\ NoSkippedLevel(HeadingLevels(tokens, i))
    /\ Len(Nodes) >= 4
    /\ \E k \in 2..Len(Nodes) : Nodes[k].level < Nodes[k - 1].level /\ Nodes[k].level > 1

(* -------------------------------- C28 ---------------------------------- *)

\* C28: a step that processes a heading of level L while path has fewer
\* than L entries pops nothing: the new id is pushed on the unchanged path; an
\* entry on top of path is the node created just before, whatever its level,
\* and becomes the parent; with an empty path the node gets no parent.
TruncationStep ==
    (pc = "scan" /\ i < Len(tokens) /\ IsHeading(tokens, i + 1)
        /\ Len(path) < TagLevel(tokens[i + 1].tag)) =>
        /\ path' = Append(path, Len(Nodes))
        /\ IF path = <<>>
           THEN mind_map'.edges = Edges
           ELSE /\ path[Len(path)] = Len(Nodes) - 1
                /\ mind_map'.edges =
                       Append(Edges, [from |-> Len(Nodes) - 1, to |-> Len(Nodes)])

TruncationByLength == [][TruncationStep]_vars

\* two level-2 headings at the start of the document: the second is a child
\* of the first
TruncationWitness ==
    /\ pc = "returned"
    /\ Len(Nodes) >= 2
    /\ Nodes[1].level = 2
    /\ Nodes[2].level = 2
    /\ ParentsOf(1) = {0}

(* -------------------------------- C29 ---------------------------------- *)

\* the ids from which id is reached along edges
RECURSIVE Ancestors(_, _)
Ancestors(S, n) ==
    LET step == S \cup UNION {ParentsOf(id) : id \in S}
    IN IF n = 0 \/ step = S THEN S ELSE Ancestors(step, n - 1)

\* C29: the number of ancestors of a node plus one is at most its level.
DepthWithinLevel ==
    \A k \in 1..Len(Nodes) :
        Cardinality(Ancestors(ParentsOf(Nodes[k].id), Len(Nodes))) + 1 <= Nodes[k].level

\* a node whose depth equals its level 3 and a node of level 3 at depth 2
DepthWitness ==
    /\ pc = "returned"
    /\ \E k \in 1..Len(Nodes) :
           /\ Nodes[k].level = 3
           /\ Cardinality(Ancestors(ParentsOf(Nodes[k].id), Len(Nodes))) = 2
    /\ \E k \in 1..Len(Nodes) :
           /\ Nodes[k].level = 3
           /\ Cardinality(Ancestors(ParentsOf(Nodes[k].id), Len(Nodes))) = 1

(* -------------------------------- C30 ---------------------------------- *)

\* C30: the parent of every node is the node created just before it or an
\* ancestor of that node, and the descendants of every node n are the ids
\* n+1 .. n+k for some k.
PreOrderNumbering ==
    /\ \A k \in 1..Len(Nodes) :
           \A par \in ParentsOf(Nodes[k].id) :
               par \in Ancestors({Nodes[k].id - 1}, Len(Nodes))
    /\ \A id \in NodeIds :
           LET d == Descendants(Children(id), Len(Nodes))
           IN d = (id + 1)..(id + Cardinality(d))

\* a node whose parent is neither the node before it nor a root, and a node
\* with two descendants
PreOrderWitness ==
    /\ pc = "returned"
    /\ \E k \in 1..Len(Nodes) :
           \E par \in ParentsOf(Nodes[k].id) :
               par # Nodes[k].id - 1 /\ ParentsOf(par) # {}
    /\ \E id \in NodeIds : Cardinality(Descendants(Children(id), Len(Nodes))) >= 2

(* -------------------------------- C21 ---------------------------------- *)

\* a step of the scan moves i from one token to the next, leaves the scan
\* only when every token was visited, by a return or by the zero-heading
\* failure, and changes path only by popping entries off its end and pushing
\* the id of the node it created
LinearStep ==
    /\ (pc = "scan" /\ pc' = "scan") => (i < Len(tokens) /\ i' = i + 1)
    /\ (pc = "scan" /\ pc' # "scan") =>
           /\ i = Len(tokens)
           /\ i' = i
           /\ pc' = "returned" \/ (pc' = "failed" /\ failure' = NoHeadings)
    /\ pc # "scan" => (i' = i \/ i' = 0)
    /\ IF Len(mind_map'.nodes) = Len(Nodes) + 1
       THEN LET kept == Len(path') - 1
            IN /\ kept \in 0..Len(path)
               /\ SubSeq(path', 1, kept) = SubSeq(path, 1, kept)
               /\ path'[kept + 1] = mind_map'.nodes[Len(Nodes) + 1].id
       ELSE path' = path

\* the ids popped so far are the ids pushed that are no longer on path
PathBounded ==
    /\ i \in 0..Len(tokens)
    /\ Len(path) <= Len(Nodes)
    /\ \A k \in 1..Len(path) : path[k] \in NodeIds
    /\ \A j \in 1..Len(path) : \A k \in 1..Len(path) : j # k => path[j] # path[k]
    /\ Len(Nodes) >= 1 => Len(path) <= Nodes[Len(Nodes)].level
    /\ Len(path) <= 6

\* C21: the scan visits the tokens one after the other, each once, and
\* then stops with a returned graph or the zero-heading failure; it pops at
\* most once per pushed id, and path is never longer than the level of the
\* last processed heading, so never longer than 6.
LinearPass ==
    /\ [][LinearStep]_vars
    /\ []PathBounded
    /\ (pc = "scan") ~> (pc \in {"returned", "failed"})

\* the scan has returned after visiting at least three tokens and popping
\* at least two ids
LinearPassWitness ==
    /\ pc = "returned"
    /\ i = Len(tokens)
    /\ Len(tokens) >= 3
    /\ Len(Nodes) - Len(path) >= 2

(* -------------------------------- C22 ---------------------------------- *)

\* what a call says about the plugin named p: "enabled", "disabled" or "nothing"
SettingIn(call, p) ==
    CASE call[1] = "enable_plugin" -> IF call[2] = p THEN "enabled" ELSE "nothing"
      [] call[1] = "disable_plugin" -> IF call[2] = p THEN "disabled" ELSE "nothing"
      [] call[1] = "configure_plugins" ->
             IF call[2][p] \in {"true", "dict", "dict_on"} THEN "enabled"
             ELSE IF call[2][p] \in {"false", "dict_off"} THEN "disabled"
             ELSE "nothing"

\* the most recent setting of p among the first n calls; "enabled" to start with
RECURSIVE MostRecentSetting(_, _, _)
MostRecentSetting(calls, n, p) ==
    IF n = 0 THEN "enabled"
    ELSE IF SettingIn(calls[n], p) # "nothing" THEN SettingIn(calls[n], p)
         ELSE MostRecentSetting(calls, n - 1, p)

Registered == <<"math", "code-highlight", "emoji", "links">>

\* the registered plugins whose most recent setting is "enabled", in
\* registration order
ExpectedPlugins ==
    SelectSeq(Registered,
              LAMBDA p : MostRecentSetting(plugin_manager.calls,
                                           Len(plugin_manager.calls), p) = "enabled")

\* the plugins of the sequence applied to a text one after the other
RECURSIVE ApplyEach(_, _, _)
ApplyEach(names, k, content) ==
    IF k > Len(names) THEN content
    ELSE ApplyEach(names, k + 1, PluginProcess(names[k], content))

\* the assets of the plugins of the sequence, concatenated
RECURSIVE CollectEach(_, _, _)
CollectEach(names, k, kind) ==
    IF k > Len(names) THEN << >>
    ELSE GetAssets(names[k])[kind] \o CollectEach(names, k + 1, kind)

\* C22: after any calls of enable_plugin, disable_plugin and
\* configure_plugins the enabled plugins are the four registered ones whose
\* most recent setting is "enabled"; get_enabled_plugins, process_content
\* and get_all_assets use exactly those, in registration order; a call
\* naming an unregistered plugin and a configure_plugins call not naming a
\* plugin set nothing.
PluginFlagsTracked ==
    LET returned == plugin_manager.returned IN
    /\ DOMAIN plugin_manager.enabled = {Registered[k] : k \in 1..4}
    /\ \A p \in DOMAIN plugin_manager.enabled :
           plugin_manager.enabled[p] <=> (\E k \in 1..Len(ExpectedPlugins) : ExpectedPlugins[k] = p)
    /\ (returned # << >> /\ returned[1] = "get_enabled_plugins") =>
           returned[2] = ExpectedPlugins
    /\ (returned # << >> /\ returned[1] = "process_content") =>
           returned[3] = ApplyEach(ExpectedPlugins, 1, returned[2])
    /\ (returned # << >> /\ returned[1] = "get_all_assets") =>
           \A kind \in {"css", "js", "inline_css"} :
               returned[2][kind] = CollectEach(ExpectedPlugins, 1, kind)

\* after a disable, a configure_plugins call that names other plugins and an
\* enable naming an unregistered plugin, process_content has rewritten the link
\* with math and links enabled
PluginFlagsWitness ==
    /\ Len(plugin_manager.calls) = 3
    /\ \E k \in 1..3 : plugin_manager.calls[k][1] = "configure_plugins"
    /\ \E k \in 1..3 : plugin_manager.calls[k][1] = "disable_plugin"
    /\ \E k \in 1..3 :
           /\ plugin_manager.calls[k][1] = "enable_plugin"
           /\ plugin_manager.calls[k][2] = Unregistered
    /\ plugin_manager.returned = <<"process_content", LinkToMath, LinkOfMath>>
    /\ ~plugin_manager.enabled["emoji"]

(* -------------------------------- C23 ---------------------------------- *)

\* the MindMap of this run of main has been built
MindMapBuilt == main.pc # "idle" /\ pc \in {"scan", "returned", "rendered"}

\* C23: the configuration the mind map is built and rendered with has the
\* layout of --layout, no toolbar with --no-toolbar, the width of
\* --max-width, the plugins of --disable-plugins disabled and only the
\* plugins of --enable-only enabled, whatever the other options are.
CliOptionsReflected ==
    MindMapBuilt =>
        /\ main.args.layout # "none" => config.layout = main.args.layout
        /\ main.args.no_toolbar => ~config.toolbar
        /\ main.args.max_width # None => config.max_width = main.args.max_width
        /\ main.args.enable_only = {} =>
               \A p \in main.args.disable_plugins : ~mind_map.enabled[p]
        /\ main.args.enable_only # {} =>
               \A p \in PluginNames : mind_map.enabled[p] <=> p \in main.args.enable_only

(* -------------------------------- C24 ---------------------------------- *)

\* parse_markdown has got past the extraction of the frontmatter of a file it
\* could read
PastFrontmatter ==
    /\ file = "text"
    /\ pc \in {"tokenize", "scan", "returned", "rendered", "failed"}

\* the configuration a frontmatter block that is YAML stands for
FrontmatterConfig ==
    IF frontmatter.kind \in {"valid", "scalar"}
    THEN [plugins |-> IF "plugins" \in frontmatter.keys THEN frontmatter.plugins
                      ELSE [p \in PluginNames |-> "true"],
          theme |-> IF "theme" \in frontmatter.keys THEN frontmatter.theme ELSE "default",
          layout |-> "hierarchical", toolbar |-> TRUE, max_width |-> 200]
    ELSE [plugins |-> [p \in PluginNames |-> "true"], theme |-> "default",
          layout |-> "hierarchical", toolbar |-> TRUE, max_width |-> 200]

\* C24: with an external configuration the MindMap has that configuration;
\* without one it has the configuration of the frontmatter, or the defaults
\* when there is no frontmatter or it is not YAML. Either way the headings
\* come from the content after a frontmatter block that parsed, the only
\* failure left is the one for no headings, and the content handed back is
\* the original one.
ConfigPrecedence ==
    PastFrontmatter =>
        /\ pc = "failed" => failure = NoHeadings
        /\ config = IF main.config # NoConfig THEN main.config ELSE FrontmatterConfig
        /\ content_start = IF frontmatter.kind \in {"valid", "scalar"}
                           THEN FrontmatterLines ELSE 0
        /\ (main.pc \in {"render", "exited"} /\ pc \in {"returned", "rendered"}) =>
               main.markdown_content = "original"

(* -------------------------------- C25 ---------------------------------- *)

\* what holds of the output in every state of a run of main
OutputState ==
    /\ (main.written \/ main.success) =>
           /\ pc = "rendered"
           /\ Len(Nodes) >= 1
           /\ failure = NoFailure
    /\ main.success => (main.written /\ main.pc = "exited" /\ main.status = 0)
    /\ main.pc = "exited" =>
           /\ main.status \in {0, 1}
           /\ main.status = 0 <=> main.success
    /\ pc = "failed" =>
           /\ main.pc \notin {"render"}
           /\ nodes_json = <<>>
           /\ edges_json = <<>>
           /\ ~main.written
           /\ ~main.success

\* a failure of parse_markdown is final and nothing is rendered after it
OutputStep ==
    pc = "failed" =>
        /\ pc' = "failed"
        /\ nodes_json' = nodes_json
        /\ main'.pc \in {main.pc, "exited"}

\* C25: the output file is written and the success message printed only
\* after parse_markdown returned a graph with a node; when parsing or
\* rendering fails main exits with status 1 without the message, and render
\* is not called after a parse failure.
OutputAfterParse ==
    /\ []OutputState
    /\ [][OutputStep]_vars
    /\ (main.pc = "parsing" /\ pc = "failed") ~> (main.pc = "exited" /\ main.status = 1)
    /\ (main.pc = "render") ~> (main.pc = "exited")

\* main has exited with status 0 after writing the mind map of two headings
OutputWitness ==
    /\ main.pc = "exited"
    /\ main.status = 0
    /\ main.success
    /\ main.written
    /\ Len(nodes_json) = 2

====
